---- MODULE Spec2Model ----
(***************************************************************************)
(* Model of the D&D command-line client (src/ai_dm_app/cli_client.py):     *)
(* the DnDClient session controller, its availability prober and the       *)
(* interaction loop of main().  The remote service is the environment:     *)
(* every network call draws its response from a small set.                 *)
(***************************************************************************)
EXTENDS Integers, Sequences, FiniteSets, TLC

(* ---------------------------------------------------------------- bounds *)
MaxId == 2          \* campaign and world identifiers range over 1..MaxId
MaxSid == 2         \* session identifiers range over 1..MaxSid
MaxDur == 2         \* a probe takes 0..MaxDur seconds
MaxTimeout == 12    \* timeouts tried on wait_for_server alone
MaxWaitProbes == 3  \* length of the probe scripts tried on wait_for_server alone
MaxSessions == 2    \* length of the listings the remote service returns
MaxText == 6        \* length of the dm_response texts tried on the rendering

(* ------------------------------------------------------ program constants *)
None == -1              \* Python None for the Optional[int] fields
PollInterval == 5       \* time.sleep(5)
DefaultTimeout == 30    \* wait_for_server(timeout=30)

(* ------------------------------------------------------------- the state *)
VARIABLES
  campaign_id, world_id, session_id,  \* DnDClient fields
  api_key,     \* DnDClient.api_key, NoValue while no client was constructed
  server_url,  \* DnDClient.server_url
  newUrl, newKey, envKey, \* the arguments of DnDClient(...) and DND_API_KEY
  lastOp,      \* the DnDClient method called last ("none" before any call)
  retKind,     \* its return value: "None", "True", "False", "str", "raised"
  retText,     \* the characters of a returned str
  raised,      \* the exception it propagated, "" when it returned
  calls,       \* the network calls it issued, in order
  out,         \* the diagnostics it printed
  ended,       \* history: end_session ran on an active session and no later
               \* start_session/load_session has returned True
  twice,       \* history: the call before lastOp was also end_session
  lastArgs,    \* history: the identifiers lastOp was called with
  tText,       \* the dm_response the remote service answers with
  wTimeout, wScript, wElapsed, wLastStart, wProbes, \* wait_for_server run alone
  pc,          \* main(): where the program is
  sessions,    \* main(): the listing it obtained, <<>> once it is no longer read
  served,      \* history: the answer of the remote service to the listing,
               \* kept until the selection is made
  argCampaign, argWorld,  \* main(): campaign_id and world_id from sys.argv
  lastEvent,   \* main(): what the last input() or turn met
  lastInput,   \* main(): the line the last input() returned
  endCalls,    \* history: how often main() has called end_session
  tokenSent    \* history: main() passed an exit token to send_message

clientVars == <<campaign_id, world_id, session_id>>
ctorVars == <<api_key, server_url, newUrl, newKey, envKey>>
opVars == <<lastOp, retKind, retText, raised, calls, out, ended, twice,
            lastArgs>>
waitVars == <<wTimeout, wScript, wElapsed, wLastStart, wProbes>>
mainVars == <<pc, sessions, served, argCampaign, argWorld, lastEvent,
              lastInput, endCalls, tokenSent>>
vars == <<clientVars, ctorVars, opVars, waitVars, mainVars, tText>>

(* ------------------------------------------------------------ value sets *)
CallerIds == 1..MaxId        \* campaign and world identifiers the caller passes
ServerIds == 1..MaxSid       \* identifiers the remote service allocates

\* Python truthiness of an Optional[int]
Truthy(x) == x /= None /\ x /= 0

\* text is a sequence of one-character strings
Str_hi == <<"h", "i">>
Str_br == <<"a", "<", "b", "r", ">", "b">>
Str_recap == <<"r">>

\* Python None and the strings the keys and addresses range over
NoValue == "<None>"
Falsy(v) == v \in {NoValue, ""}
DEFAULT_SERVER_URL == "http://127.0.0.1:5000"

\* a network call as the remote service sees it; key is its X-API-Key header
Call(kind, res, sid, cid, wid, inp) ==
  [kind |-> kind, res |-> res, sid |-> sid, cid |-> cid, wid |-> wid,
   inp |-> inp, key |-> NoValue]

\* RequestHeaders sending the probe without the header
RequestHeaders_BareProbe(key, kind) == IF kind = "probe" THEN NoValue ELSE key

\* headers=self.headers of the five requests, self.headers being
\* {'X-API-Key': self.api_key}
RequestHeaders(key, kind) == key

\* the calls cs as a client holding key sends them
Sent(cs, key) ==
  [k \in 1..Len(cs) |-> [cs[k] EXCEPT !.key = RequestHeaders(key, cs[k].kind)]]

\* DnDClient_init accepting a missing key
DnDClient_init_Unchecked(url, key, env) ==
  [raised |-> "",
   api_key |-> IF Falsy(key) THEN env ELSE key,
   server_url |-> IF Falsy(url) THEN DEFAULT_SERVER_URL ELSE url]

\* DnDClient.__init__(server_url, api_key) with DND_API_KEY = env
DnDClient_init(url, key, env) ==
  LET k == IF Falsy(key) THEN env ELSE key
  IN IF Falsy(k)
       THEN [raised |-> "ValueError", api_key |-> NoValue,
             server_url |-> NoValue]
     ELSE [raised |-> "", api_key |-> k,
           server_url |-> IF Falsy(url) THEN DEFAULT_SERVER_URL ELSE url]
ProbeCall(p) == Call("probe", p.res, None, None, None, <<>>)

\* how a probe (GET server_url) can end, and how long it takes
ProbeRes == {"2xx", "status", "neterr"}
Probe(r, d) == [res |-> r, dur |-> d]

(* ------------------------------------------------- availability prober *)
\* check_server: True unless requests.get raises a RequestException; the
\* status of the response is not looked at
check_server(p) == p.res /= "neterr"

\* the while loop of wait_for_server from its i-th probe on; elapsed is
\* time.time() - start_time at the loop test, lastStart the elapsed time at
\* which the last iteration began (None when the loop body never ran)
RECURSIVE WaitLoop(_, _, _, _, _)
WaitLoop(timeout, script, i, elapsed, lastStart) ==
  IF ~(elapsed < timeout)
    THEN [ok |-> FALSE, elapsed |-> elapsed, used |-> i - 1,
          lastStart |-> lastStart, exhausted |-> FALSE]
  ELSE IF i > Len(script)
    THEN [ok |-> FALSE, elapsed |-> elapsed, used |-> i - 1,
          lastStart |-> lastStart, exhausted |-> TRUE]
  ELSE IF check_server(script[i])
    THEN [ok |-> TRUE, elapsed |-> elapsed + script[i].dur, used |-> i,
          lastStart |-> elapsed, exhausted |-> FALSE]
  ELSE WaitLoop(timeout, script, i + 1,
                elapsed + script[i].dur + PollInterval, elapsed)

\* wait_for_server(timeout) against the probe results of script
wait_for_server(timeout, script) ==
  LET w == WaitLoop(timeout, script, 1, 0, None)
  IN [ok |-> w.ok, elapsed |-> w.elapsed, used |-> w.used,
      lastStart |-> w.lastStart, exhausted |-> w.exhausted,
      calls |-> [k \in 1..w.used |-> ProbeCall(script[k])],
      out |-> IF w.exhausted THEN {}
              ELSE IF w.ok THEN {"Server is running!"}
              ELSE {"Server connection timed out"}]

\* EnsureServer going on after a wait that timed out
EnsureServer_IgnoreTimeout(script) ==
  IF check_server(script[1])
    THEN [ok |-> TRUE, used |-> 1, exhausted |-> FALSE,
          calls |-> <<ProbeCall(script[1])>>, out |-> {}]
  ELSE LET w == wait_for_server(DefaultTimeout, Tail(script))
       IN [ok |-> TRUE, used |-> 1 + w.used, exhausted |-> w.exhausted,
           calls |-> <<ProbeCall(script[1])>> \o w.calls, out |-> w.out]

\* the reachability precondition of load_session and start_session:
\*   if not self.check_server(): if not self.wait_for_server(): return False
EnsureServer(script) ==
  IF check_server(script[1])
    THEN [ok |-> TRUE, used |-> 1, exhausted |-> FALSE,
          calls |-> <<ProbeCall(script[1])>>, out |-> {}]
  ELSE LET w == wait_for_server(DefaultTimeout, Tail(script))
       IN [ok |-> w.ok, used |-> 1 + w.used, exhausted |-> w.exhausted,
           calls |-> <<ProbeCall(script[1])>> \o w.calls, out |-> w.out]

(* ---------------------------------------------------- session controller *)
\* ReplaceBr removing the marker instead of putting a newline
RECURSIVE ReplaceBr_Dropped(_)
ReplaceBr_Dropped(s) ==
  IF s = <<>> THEN <<>>
  ELSE IF Len(s) >= 4 /\ SubSeq(s, 1, 4) = <<"<", "b", "r", ">">>
    THEN ReplaceBr_Dropped(SubSeq(s, 5, Len(s)))
  ELSE <<Head(s)>> \o ReplaceBr_Dropped(Tail(s))

\* str.replace("<br>", "\n"): left to right, non-overlapping
RECURSIVE ReplaceBr(_)
ReplaceBr(s) ==
  IF s = <<>> THEN <<>>
  ELSE IF Len(s) >= 4 /\ SubSeq(s, 1, 4) = <<"<", "b", "r", ">">>
    THEN <<"\n">> \o ReplaceBr(SubSeq(s, 5, Len(s)))
  ELSE <<Head(s)>> \o ReplaceBr(Tail(s))

\* the result of a method: the fields afterwards, what it returned or
\* raised, the calls it issued and what it printed
Result(self, kind, text, exc, cs, o) ==
  [self |-> self, retKind |-> kind, retText |-> text, raised |-> exc,
   calls |-> cs, out |-> o]

RequestFailed(res) == res \in {"status", "neterr", "badjson"}

\* load_session leaving the world of the controller as it was
load_session_KeepsWorld(self, sid, cid, wid, e) ==
  IF ~e.ok
    THEN Result(self, "False", <<>>, "", e.calls, e.out)
  ELSE Result([campaign_id |-> cid, world_id |-> self.world_id,
               session_id |-> sid],
              "True", <<>>, "", e.calls, e.out)

\* load_session(session_id, campaign_id, world_id); e is what its
\* reachability precondition met
load_session(self, sid, cid, wid, e) ==
  IF ~e.ok
    THEN Result(self, "False", <<>>, "", e.calls, e.out)
  ELSE Result([campaign_id |-> cid, world_id |-> wid, session_id |-> sid],
              "True", <<>>, "", e.calls, e.out)

\* start_session(campaign_id, world_id); e is what its reachability
\* precondition met, resp the answer to POST /sessions/start
start_session(self, cid, wid, e, resp) ==
  LET req == Call("create", resp.res, None, cid, None, <<>>)
      assigned == [self EXCEPT !.campaign_id = cid, !.world_id = wid]
  IN IF ~e.ok
       THEN Result(self, "False", <<>>, "", e.calls, e.out)
     ELSE IF RequestFailed(resp.res)
       THEN Result(assigned, "False", <<>>, "", Append(e.calls, req),
                   e.out \cup {"Error starting session"})
     ELSE IF resp.res = "nokey"
       THEN Result(assigned, "raised", <<>>, "KeyError",
                   Append(e.calls, req), e.out)
     ELSE Result([assigned EXCEPT !.session_id = resp.sid],
                 "True", <<>>, "", Append(e.calls, req), e.out)

\* SessionInitialized leaving session_id out of the test
SessionInitialized_NoSession(self) ==
  Truthy(self.campaign_id) /\ Truthy(self.world_id)

\* all([self.campaign_id, self.world_id, self.session_id])
SessionInitialized(self) ==
  Truthy(self.campaign_id) /\ Truthy(self.world_id) /\ Truthy(self.session_id)

\* the except branch of send_message: report, probe once, return None
InteractFailed(self, req, probe) ==
  Result(self, "None", <<>>, "", <<req, ProbeCall(probe)>>,
         {"Error sending message"} \cup
         (IF ~check_server(probe) THEN {"Server connection lost!"} ELSE {}))

\* send_message(user_input); resp is the answer to POST
\* /sessions/<id>/interact, probe the answer to the check_server that
\* follows a failed request
send_message(self, inp, resp, probe) ==
  LET req == Call("interact", resp.res, self.session_id, self.campaign_id,
                  self.world_id, inp)
  IN IF ~SessionInitialized(self)
       THEN Result(self, "None", <<>>, "", <<>>, {"Session not initialized!"})
     ELSE IF RequestFailed(resp.res)
       THEN InteractFailed(self, req, probe)
     ELSE IF resp.res = "badtype"
       THEN Result(self, "raised", <<>>, "AttributeError", <<req>>, {})
     ELSE IF resp.res = "nofield"
       THEN Result(self, "str", <<>>, "", <<req>>, {})
     ELSE Result(self, "str", ReplaceBr(resp.text), "", <<req>>, {})

\* end_session(); resp is the answer to POST /sessions/<id>/end
end_session(self, resp) ==
  LET req == Call("end", resp.res, self.session_id, None, None, <<>>)
  IN IF ~Truthy(self.session_id)
       THEN Result(self, "None", <<>>, "", <<>>, {})
     ELSE IF RequestFailed(resp.res)
       THEN Result(self, "None", <<>>, "", <<req>>, {"Error ending session"})
     ELSE IF resp.res = "norecap"
       THEN Result(self, "None", <<>>, "", <<req>>, {})
     ELSE Result(self, "str", resp.text, "", <<req>>, {})

(* ------------------------------------------------------- the environment *)
\* the longest run of failed probes one load_session/start_session can see:
\* the immediate check and one probe per poll interval of the default wait
MaxFails == 1 + DefaultTimeout \div PollInterval

FailRun(n, d) == [i \in 1..n |-> Probe("neterr", d)]

\* what the remote service does to the probes of one operation: it stays
\* unreachable for n probes and then answers, or never answers
Answers(d) == {<<>>} \cup { <<Probe(r, d)>> : r \in {"2xx", "status"} }
Scripts == { FailRun(n, 0) \o t : n \in 0..MaxFails, t \in Answers(0) }

\* the operation reads every probe result of the script and no more
Consumed(script) ==
  /\ script /= <<>>
  /\ LET e == EnsureServer(script)
     IN ~e.exhausted /\ e.used = Len(script)

\* the scripts an operation can meet
ValidScripts == { script \in Scripts : Consumed(script) }

\* what the reachability precondition of one operation can meet
Reached == { EnsureServer(script) : script \in ValidScripts }

CreateResponses ==
  { [res |-> r, sid |-> None] : r \in {"status", "neterr", "nokey"} }
  \cup { [res |-> "2xx", sid |-> i] : i \in ServerIds }

InteractResponses ==
  { [res |-> r, text |-> <<>>] :
      r \in {"status", "neterr", "badjson", "nofield", "badtype"} }
  \cup { [res |-> "2xx", text |-> t] : t \in {Str_hi, Str_br} }

EndResponses ==
  { [res |-> r, text |-> <<>>] : r \in {"status", "neterr", "norecap"} }
  \cup { [res |-> "2xx", text |-> Str_recap] }

Probes == { Probe(r, 0) : r \in ProbeRes }

(* ------------------------------------------- calls on a DnDClient object *)
Self == [campaign_id |-> campaign_id, world_id |-> world_id,
         session_id |-> session_id]

FullySet(self) ==
  self.campaign_id /= None /\ self.world_id /= None /\ self.session_id /= None
FullyUnset(self) ==
  self.campaign_id = None /\ self.world_id = None /\ self.session_id = None

Args(sid, cid, wid) == [sid |-> sid, cid |-> cid, wid |-> wid]
NoArgs == Args(None, None, None)

\* the state after method op, called with a, returned (or raised) with
\* result r
Returned(op, a, r) ==
  /\ campaign_id' = r.self.campaign_id
  /\ world_id' = r.self.world_id
  /\ session_id' = r.self.session_id
  /\ lastOp' = op
  /\ retKind' = r.retKind
  /\ retText' = r.retText
  /\ raised' = r.raised
  /\ calls' = Sent(r.calls, api_key')
  /\ out' = r.out
  /\ lastArgs' = a
  /\ ended' = IF op = "end_session" /\ FullySet(Self) THEN TRUE
              ELSE IF op \in {"start_session", "load_session"}
                      /\ r.retKind = "True" THEN FALSE
              ELSE ended
  /\ twice' = (op = "end_session" /\ lastOp = "end_session")

LoadSession ==
  \E sid \in ServerIds, cid \in CallerIds, wid \in CallerIds, e \in Reached :
    /\ pc = "api" /\ UNCHANGED ctorVars
    /\ \E r \in {load_session(Self, sid, cid, wid, e)} :
         Returned("load_session", Args(sid, cid, wid), r)
    /\ UNCHANGED <<tText, waitVars, mainVars>>

StartSession ==
  \E cid \in CallerIds, wid \in CallerIds, e \in Reached,
     resp \in CreateResponses :
    /\ pc = "api" /\ UNCHANGED ctorVars
    /\ \E r \in {start_session(Self, cid, wid, e, resp)} :
         Returned("start_session", Args(None, cid, wid), r)
    /\ UNCHANGED <<tText, waitVars, mainVars>>

SendMessage ==
  \E resp \in InteractResponses, probe \in Probes :
    /\ pc = "api" /\ UNCHANGED ctorVars
    /\ \E r \in {send_message(Self, Str_hi, resp, probe)} :
         Returned("send_message", NoArgs, r)
    /\ UNCHANGED <<tText, waitVars, mainVars>>

EndSession ==
  \E resp \in EndResponses :
    /\ pc = "api" /\ UNCHANGED ctorVars
    /\ \E r \in {end_session(Self, resp)} :
         Returned("end_session", NoArgs, r)
    /\ UNCHANGED <<tText, waitVars, mainVars>>

\* check_server() called by the caller; p is the answer to GET server_url,
\* which may also be a 2xx response whose body is not JSON
CheckServer ==
  \E p \in Probes \cup {Probe("badjson", 0)} :
    /\ pc = "api" /\ UNCHANGED ctorVars
    /\ \E r \in {Result(Self, IF check_server(p) THEN "True" ELSE "False",
                         <<>>, "", <<ProbeCall(p)>>, {})} :
         Returned("check_server", NoArgs, r)
    /\ UNCHANGED <<tText, waitVars, mainVars>>

\* DnDClient.__init__: no identity field is set
InitClient ==
  /\ campaign_id = None /\ world_id = None /\ session_id = None
  /\ lastOp = "none" /\ retKind = "None" /\ retText = <<>> /\ raised = ""
  /\ calls = <<>> /\ out = {} /\ ended = FALSE /\ twice = FALSE
  /\ lastArgs = NoArgs

\* the client is DnDClient(api_key="k1")
Constructed ==
  /\ newUrl = NoValue /\ newKey = "k1" /\ envKey = NoValue
  /\ api_key = DnDClient_init(newUrl, newKey, envKey).api_key
  /\ server_url = DnDClient_init(newUrl, newKey, envKey).server_url

NoWait ==
  /\ wTimeout = 0 /\ wScript = <<>> /\ wElapsed = None
  /\ wLastStart = None /\ wProbes = 0

NoMain ==
  /\ tText = <<>>
  /\ pc = "api" /\ sessions = <<>> /\ argCampaign = None /\ argWorld = None
  /\ served = [res |-> "none", sessions |-> <<>>]
  /\ lastEvent = "none" /\ lastInput = <<>> /\ endCalls = 0 /\ tokenSent = FALSE

\* a caller driving one DnDClient through its public methods in any order
Init == InitClient /\ Constructed /\ NoWait /\ NoMain
Next ==
  LoadSession \/ StartSession \/ SendMessage \/ EndSession \/ CheckServer
Spec == Init /\ [][Next]_vars

(* ------------------------------------------------ claims on the controller *)
HasCall(cs, kind) == \E k \in 1..Len(cs) : cs[k].kind = kind
CountCalls(cs, kind) == Cardinality({ k \in 1..Len(cs) : cs[k].kind = kind })

\* C1: after end_session on a controller with an active session the three
\* identity fields are all unset again, whatever the end call answered.
C1_EndClearsIdentity ==
  [][(lastOp' = "end_session" /\ FullySet(Self)) => FullyUnset(Self')]_vars

\* C2: the second of two consecutive end_session calls returns None and
\* issues no network call.
C2_SecondEndIsLocal ==
  twice => (retKind = "None" /\ calls = <<>>)

\* C3: a start_session on an uninitialized controller whose create request
\* fails returns False and leaves campaign, world and session unset.
C3_FailedCreateStaysUninitialized ==
  [][(/\ lastOp' = "start_session"
      /\ FullyUnset(Self)
      /\ HasCall(calls', "create")
      /\ RequestFailed(calls'[Len(calls')].res))
     => (retKind' = "False" /\ FullyUnset(Self'))]_vars

\* C4: after a start_session or load_session that returned True, and after
\* any end_session, the identity is fully set or fully unset.
C4_NeverPartialAfterTransition ==
  (\/ (lastOp \in {"start_session", "load_session"} /\ retKind = "True")
   \/ lastOp = "end_session")
  => (FullySet(Self) \/ FullyUnset(Self))

\* the operation found the service unreachable: its immediate probe failed
\* and its bounded wait timed out
FoundUnreachable(cs, o) ==
  /\ cs /= <<>>
  /\ cs[1].kind = "probe" /\ cs[1].res = "neterr"
  /\ "Server connection timed out" \in o

\* a call that got an answer from the service root comes before the k-th call
ProbedBefore(cs, k) ==
  \E j \in 1..(k - 1) : cs[j].kind = "probe" /\ cs[j].res /= "neterr"

\* C5: a start_session or load_session that finds the service unreachable
\* returns False, issues no create request and leaves the identity as it
\* was; a create request or an adopted identity always follows a probe of
\* the same operation that succeeded.
C5_NoEstablishWithoutProbe ==
  [][lastOp' \in {"start_session", "load_session"} =>
       /\ FoundUnreachable(calls', out') =>
            (retKind' = "False" /\ ~HasCall(calls', "create") /\ Self' = Self)
       /\ \A k \in 1..Len(calls') :
            calls'[k].kind = "create" => ProbedBefore(calls', k)
       /\ retKind' = "True" => ProbedBefore(calls', Len(calls') + 1)]_vars

C5_Witness ==
  /\ lastOp = "start_session" /\ retKind = "False"
  /\ FoundUnreachable(calls, out) /\ Len(calls) = MaxFails
  /\ FullyUnset(Self)

\* C6: send_message on a controller whose three identity fields are not all
\* set returns None and issues no network call at all.
C6_InteractRejectedLocally ==
  (lastOp = "send_message" /\ ~FullySet(Self))
  => (retKind = "None" /\ calls = <<>>)

C6_Witness ==
  /\ lastOp = "send_message" /\ retKind = "None" /\ calls = <<>>
  /\ campaign_id /= None /\ session_id = None
  /\ "Session not initialized!" \in out

\* C7: once end_session has run on an active session, no interact request
\* is issued until a start_session or load_session returns True.
C7_EndedRejectsInteract ==
  (ended /\ lastOp = "send_message")
  => (retKind = "None" /\ ~HasCall(calls, "interact"))

\* the answers to the interact request that are transport failures: no
\* response, a status that is not 2xx, and a malformed payload (a body that
\* is not JSON, or JSON that is not an object)
InteractTransportFailures == {"neterr", "status", "badjson", "badtype"}

\* C10: a send_message whose interact request meets a transport failure
\* returns None, issues that one interact request and one probe, reports
\* the lost connection exactly when the probe fails, and leaves the
\* identity as it was.
C10_FailedInteract ==
  [][(/\ lastOp' = "send_message"
      /\ calls' /= <<>>
      /\ calls'[1].res \in InteractTransportFailures)
     => (/\ retKind' = "None" /\ raised' = ""
         /\ CountCalls(calls', "interact") = 1
         /\ CountCalls(calls', "probe") = 1
         /\ Len(calls') = 2
         /\ ("Server connection lost!" \in out')
              <=> (calls'[2].kind = "probe" /\ calls'[2].res = "neterr")
         /\ Self' = Self)]_vars

(* ------------------------------------------- wait_for_server on its own *)
WaitScripts ==
  UNION { [1..n -> { Probe(r, d) : r \in ProbeRes, d \in 0..MaxDur }] :
          n \in 0..MaxWaitProbes }

\* one call wait_for_server(wTimeout) against the probe results wScript
InitWait ==
  /\ InitClient /\ Constructed /\ NoMain
  /\ wTimeout \in 0..MaxTimeout
  /\ wScript \in WaitScripts
  /\ LET w == wait_for_server(wTimeout, wScript)
     IN ~w.exhausted /\ w.used = Len(wScript)
  /\ wElapsed = None /\ wLastStart = None /\ wProbes = 0

WaitForServer ==
  /\ lastOp = "none"
  /\ LET w == wait_for_server(wTimeout, wScript)
     IN /\ wElapsed' = w.elapsed
        /\ wLastStart' = w.lastStart
        /\ wProbes' = w.used
        /\ lastOp' = "wait_for_server"
        /\ retKind' = IF w.ok THEN "True" ELSE "False"
        /\ calls' = Sent(w.calls, api_key)
        /\ out' = w.out
  /\ UNCHANGED <<clientVars, ctorVars, tText, retText, raised, ended, twice,
                 lastArgs, wTimeout, wScript, mainVars>>

NextWait == WaitForServer
SpecWait == InitWait /\ [][NextWait]_vars

NeverReachable(script) == \A k \in 1..Len(script) : script[k].res = "neterr"
\* C9: against a service that never answers, wait_for_server(T)
\* returns False after at least T and strictly before T + 5 seconds.
C9_TimeoutWithinOnePoll ==
  (lastOp = "wait_for_server" /\ NeverReachable(wScript))
  => (/\ retKind = "False" /\ raised = ""
      /\ wElapsed >= wTimeout
      /\ wElapsed < wTimeout + PollInterval)

(* ------------------------------------------------------ text conversions *)
Whitespace == {" ", "\t", "\n"}

\* str.strip()
RECURSIVE LStrip(_)
LStrip(s) ==
  IF s /= <<>> /\ Head(s) \in Whitespace THEN LStrip(Tail(s)) ELSE s
RECURSIVE RStrip(_)
RStrip(s) ==
  IF s /= <<>> /\ s[Len(s)] \in Whitespace
    THEN RStrip(SubSeq(s, 1, Len(s) - 1)) ELSE s
Strip(s) == RStrip(LStrip(s))

\* str.lower() on the letters the inputs use
LowerChar(c) ==
  CASE c = "E" -> "e" [] c = "X" -> "x" [] c = "I" -> "i" [] c = "T" -> "t"
    [] c = "Q" -> "q" [] c = "U" -> "u" [] OTHER -> c
Lower(s) == [k \in 1..Len(s) |-> LowerChar(s[k])]

ExitTokens == { <<"e", "x", "i", "t">>, <<"q", "u", "i", "t">> }

\* IsExitCommand comparing without lower()
IsExitCommand_CaseSensitive(user_input) == user_input \in ExitTokens

\* user_input.lower() in ["exit", "quit"]
IsExitCommand(user_input) == Lower(user_input) \in ExitTokens

\* str.isdigit(): true of the superscript two as well, which int() rejects
AsciiDigits == {"0", "1", "2", "3", "9"}
IsDigit(s) == s /= <<>> /\ \A k \in 1..Len(s) : s[k] \in AsciiDigits \cup {"^2"}
IntParses(s) == \A k \in 1..Len(s) : s[k] \in AsciiDigits
DigitVal(c) ==
  CASE c = "0" -> 0 [] c = "1" -> 1 [] c = "2" -> 2 [] c = "3" -> 3 [] OTHER -> 9
RECURSIVE ToInt(_)
ToInt(s) ==
  IF s = <<>> THEN 0
  ELSE 10 * ToInt(SubSeq(s, 1, Len(s) - 1)) + DigitVal(s[Len(s)])

(* -------------------------------------------------------- session directory *)
Summary(i) == [session_id |-> i, created_at |-> "2024-01-01T00:00:00Z"]

\* an entry of a listing that has no created_at
BareSummary(i) == [session_id |-> i, created_at |-> NoValue]

Listings ==
  UNION { [1..n -> { Summary(i) : i \in ServerIds }] : n \in 0..MaxSessions }

\* the answers to the listing: no answer, a status that is not 2xx, a body
\* that is not JSON, a listing, and a JSON listing without created_at
ListResponses ==
  { [res |-> r, sessions |-> <<>>] : r \in {"status", "neterr", "badjson"} }
  \cup { [res |-> "2xx", sessions |-> l] : l \in Listings }
  \cup { [res |-> "badshape", sessions |-> <<BareSummary(1)>>] }

\* list_sessions returning the listing newest first
list_sessions_Reversed(cid, resp) ==
  LET req == Call("list", resp.res, None, cid, None, <<>>)
      n == Len(resp.sessions)
  IN IF RequestFailed(resp.res)
       THEN [sessions |-> <<>>, calls |-> <<req>>,
             out |-> {"Error listing sessions"}]
     ELSE [sessions |-> [k \in 1..n |-> resp.sessions[n + 1 - k]],
           calls |-> <<req>>, out |-> {}]

\* list_sessions(campaign_id); resp is the answer to
\* GET /campaigns/<id>/sessions
list_sessions(cid, resp) ==
  LET req == Call("list", resp.res, None, cid, None, <<>>)
  IN IF RequestFailed(resp.res)
       THEN [sessions |-> <<>>, calls |-> <<req>>,
             out |-> {"Error listing sessions"}]
     ELSE [sessions |-> resp.sessions, calls |-> <<req>>, out |-> {}]

(* ------------------------------------------------------------------ main() *)
Inputs ==
  { <<"q", "u", "i", "t">>, <<"Q", "U", "I", "T">>,
    <<" ", "E", "x", "i", "t", " ">>, <<"h", "i">>, <<>>,
    <<"q", "u", "i", "t", "s">> }

Choices ==
  { <<>>, <<"1">>, <<"2">>, <<"9">>, <<"0">>, <<"x">>, <<" ", "1">>, <<"^2">> }

\* where main() goes after load_session/start_session returned r
AfterEstablish(r) ==
  IF r.raised /= "" THEN "crashed"
  ELSE IF r.retKind = "True" THEN "loop"
  ELSE "exit"

\* the printing loop over the listing reads session['created_at']
ListingPrints(l) == \A k \in 1..Len(l) : l[k].created_at /= NoValue

\* result r of a method, with the calls cs and the diagnostics o that main()
\* made before it
After(cs, o, r) == [r EXCEPT !.calls = cs \o r.calls, !.out = o \cup r.out]

\* sys.argv[3] and sys.argv[4] as main() reads them: NoValue for an
\* argument that is not there; a fourth argument comes after a third
MainArgv ==
  { [url |-> u, key |-> k] :
      u \in {NoValue, "", "http://host:2"}, k \in {NoValue, "k2"} }
  \ { [url |-> NoValue, key |-> "k2"] }

\* main() up to its first input(): read DND_SERVER_URL, DND_API_KEY and the
\* arguments, build the client, parse the campaign and world arguments
\* (a campaign or world argument that is not a number ends main() with the
\* usage text), list the sessions and, when there are none, start a new
\* session; envUrl is DND_SERVER_URL and env is DND_API_KEY
MainBegin ==
  \E envUrl \in {NoValue, "http://host:1"}, env \in {NoValue, "k1"},
     argv \in MainArgv :
    /\ pc = "start"
    /\ newUrl' = (IF Falsy(envUrl) THEN argv.url ELSE envUrl)
    /\ newKey' = (IF Falsy(env) THEN argv.key ELSE env)
    /\ envKey' = env
    /\ \E c \in {DnDClient_init(newUrl', newKey', env)} :
         /\ api_key' = c.api_key
         /\ server_url' = c.server_url
         /\ IF c.raised /= ""
              THEN /\ pc' = "exit"
                   /\ lastOp' = "__init__"
                   /\ retKind' = "raised" /\ raised' = c.raised
                   /\ out' = {"Error: API key is required"}
                   /\ UNCHANGED <<clientVars, retText, calls,
                                  ended, twice, lastArgs,
                                  sessions, served, argCampaign, argWorld>>
            ELSE
              \/ /\ pc' = "exit"
                 /\ lastOp' = "__init__"
                 /\ retKind' = "DnDClient" /\ raised' = ""
                 /\ out' = {"Usage: python cli_client.py"}
                 /\ UNCHANGED <<clientVars, retText, calls,
                                ended, twice, lastArgs,
                                sessions, served, argCampaign, argWorld>>
              \/ \E cid \in CallerIds, wid \in CallerIds, lr \in ListResponses :
                   /\ argCampaign' = cid /\ argWorld' = wid
                   /\ served' = lr
                   /\ \E l \in {list_sessions(cid, lr)} :
                        /\ sessions' = l.sessions
                        /\ IF l.sessions /= <<>>
                             THEN /\ pc' = IF ListingPrints(l.sessions)
                                             THEN "select" ELSE "crashed"
                                  /\ raised' = IF ListingPrints(l.sessions)
                                                 THEN "" ELSE "KeyError"
                                  /\ lastOp' = "list_sessions"
                                  /\ lastArgs' = Args(None, cid, None)
                                  /\ calls' = Sent(l.calls, api_key')
                                  /\ out' = l.out
                                  /\ UNCHANGED <<clientVars, retKind, retText,
                                                 ended, twice>>
                           ELSE \E e \in Reached, cr \in CreateResponses :
                                  \E r \in {After(l.calls, l.out,
                                              start_session(Self, cid, wid,
                                                            e, cr))} :
                                    /\ Returned("start_session",
                                                Args(None, cid, wid), r)
                                    /\ pc' = AfterEstablish(r)
    /\ UNCHANGED <<tText, waitVars, lastEvent, lastInput, endCalls, tokenSent>>

\* the selection is the number of a listed session
ValidChoice(choice, listing) ==
  /\ choice /= <<>> /\ IsDigit(choice)
  /\ 1 <= ToInt(choice) /\ ToInt(choice) <= Len(listing)

\* the answer to "Enter session number to load, or press Enter for new
\* session": load the chosen session or start a new one
MainChoose ==
  \E raw \in Choices :
    /\ pc = "select"
    /\ UNCHANGED ctorVars
    /\ \E choice \in {Strip(raw)} :
         IF choice /= <<>> /\ IsDigit(choice) /\ ~IntParses(choice)
           THEN /\ pc' = "crashed"
                /\ raised' = "ValueError"
                /\ UNCHANGED <<clientVars, lastOp, retKind, retText, calls,
                               out, ended, twice, lastArgs>>
         ELSE IF ValidChoice(choice, sessions)
           THEN \E e \in Reached, sid \in {sessions[ToInt(choice)].session_id} :
                  \E r \in {load_session(Self, sid, argCampaign, argWorld, e)} :
                    /\ Returned("load_session",
                                Args(sid, argCampaign, argWorld), r)
                    /\ pc' = AfterEstablish(r)
         ELSE \E e \in Reached, cr \in CreateResponses :
                \E r \in {start_session(Self, argCampaign, argWorld, e, cr)} :
                  /\ Returned("start_session",
                              Args(None, argCampaign, argWorld), r)
                  /\ pc' = AfterEstablish(r)
    /\ lastInput' = raw
    /\ sessions' = <<>>
    /\ served' = [res |-> "none", sessions |-> <<>>]
    /\ UNCHANGED <<tText, waitVars, argCampaign, argWorld, lastEvent,
                   endCalls, tokenSent>>

\* the code after the chat loop: end the session and show the recap
Finalize(resp) ==
  /\ \E r \in {end_session(Self, resp)} : Returned("end_session", NoArgs, r)
  /\ endCalls' = endCalls + 1
  /\ pc' = "done"

\* the history of what send_message was called with
Dispatch(user_input) ==
  tokenSent' = (tokenSent \/ Lower(user_input) \in ExitTokens)

\* TurnEndsLoop leaving the loop on a turn without a response as well
TurnEndsLoop_OnNone(r) == r.raised /= "" \/ r.retKind = "None"

\* a turn leaves the loop when send_message raised: except Exception: break
TurnEndsLoop(r) == r.raised /= ""

\* one pass of the chat loop that reads a line: leave on an exit command,
\* otherwise send the line; an interrupt or an exception during
\* send_message leaves the loop as well
MainTurn ==
  \E raw \in Inputs :
    /\ pc = "loop"
    /\ UNCHANGED ctorVars
    /\ lastInput' = raw
    /\ \E user_input \in {Strip(raw)} :
          IF IsExitCommand(user_input)
            THEN /\ lastEvent' = "input"
                 /\ \E er \in EndResponses : Finalize(er)
                 /\ UNCHANGED tokenSent
          ELSE \/ /\ lastEvent' = "interrupt"
                  /\ Dispatch(user_input)
                  /\ \E er \in EndResponses : Finalize(er)
               \/ \E resp \in InteractResponses, probe \in Probes :
                    \E r \in {send_message(Self, user_input, resp, probe)} :
                       /\ lastEvent' = IF r.raised /= "" THEN "error"
                                       ELSE "input"
                       /\ Dispatch(user_input)
                       /\ IF TurnEndsLoop(r)
                            THEN \E er \in EndResponses : Finalize(er)
                          ELSE /\ Returned("send_message", NoArgs, r)
                               /\ pc' = "loop"
                               /\ UNCHANGED endCalls
    /\ UNCHANGED <<tText, waitVars, sessions, served, argCampaign, argWorld>>

\* one pass of the chat loop whose input() raises KeyboardInterrupt or
\* another exception (EOFError)
MainInputFails ==
  \E ev \in {"interrupt", "error"}, er \in EndResponses :
    /\ pc = "loop"
    /\ UNCHANGED ctorVars
    /\ lastEvent' = ev
    /\ Finalize(er)
    /\ UNCHANGED <<tText, waitVars, sessions, served, argCampaign, argWorld,
                   lastInput, tokenSent>>

\* no client exists yet
Unconstructed ==
  /\ api_key = NoValue /\ server_url = NoValue
  /\ newUrl = NoValue /\ newKey = NoValue /\ envKey = NoValue

InitMain ==
  /\ InitClient /\ Unconstructed /\ NoWait /\ tText = <<>>
  /\ pc = "start" /\ sessions = <<>> /\ argCampaign = None /\ argWorld = None
  /\ served = [res |-> "none", sessions |-> <<>>]
  /\ lastEvent = "none" /\ lastInput = <<>> /\ endCalls = 0 /\ tokenSent = FALSE

NextMain == MainBegin \/ MainChoose \/ MainTurn \/ MainInputFails
SpecMain == InitMain /\ [][NextMain]_vars

\* the last pass of the loop met one of the three exit conditions
ExitPathTaken ==
  \/ lastEvent = "input" /\ pc \in {"loop", "done"}
       /\ Lower(Strip(lastInput)) \in ExitTokens
  \/ lastEvent \in {"interrupt", "error"}

\* C8: an "exit"/"quit" line in any letter case, an interrupt and an error
\* in a turn each end the loop with exactly one end_session call, and no
\* exit token is ever passed to send_message.
C8_ExitPathsFinalizeOnce ==
  /\ ExitPathTaken => (pc = "done" /\ endCalls = 1 /\ lastOp = "end_session")
  /\ pc = "done" => endCalls = 1
  /\ ~tokenSent

C8_Witness ==
  /\ pc = "done" /\ endCalls = 1 /\ lastEvent = "input"
  /\ lastInput = <<"Q", "U", "I", "T">>
  /\ HasCall(calls, "end") /\ retKind = "str"

(* ------------------------------------------------------- listing claims *)
\* C11: whenever the listing call fails (no answer, a status that is not
\* 2xx, or a malformed response) list_sessions returns the empty list and
\* prints a diagnostic, and main() goes on to start a new session.
C11_ListingFailureIsAdvisory ==
  [][(pc = "start" /\ served'.res \notin {"none", "2xx"})
       => /\ sessions' = <<>>
          /\ "Error listing sessions" \in out'
          /\ lastOp' = "start_session"]_vars

\* C12: when the listing call succeeds, list_sessions hands main() exactly
\* the sequence the service returned: same length, same entries, same order.
C12_ListingAsServed ==
  [][(pc = "start" /\ served'.res = "2xx") => sessions' = served'.sessions]_vars

C12_Witness ==
  /\ pc = "select" /\ served.res = "2xx" /\ Len(sessions) = 2
  /\ sessions[1].session_id = 2 /\ sessions[2].session_id = 1
  /\ lastOp = "list_sessions" /\ HasCall(calls, "list")

(* ------------------------------------------------------ DnDClient(...) *)
\* what the api_key argument and DND_API_KEY can be: absent, empty, or a
\* string; and the same for the server_url argument
Keys == {NoValue, "", " ", "k1", "k2"}
Urls == {NoValue, "", "http://host:1"}

InitNew ==
  /\ InitClient /\ NoWait /\ NoMain
  /\ newUrl \in Urls /\ newKey \in Keys /\ envKey \in Keys
  /\ api_key = NoValue /\ server_url = NoValue

\* DnDClient(server_url=newUrl, api_key=newKey) with DND_API_KEY = envKey
Construct ==
  /\ pc = "api" /\ lastOp = "none"
  /\ \E c \in {DnDClient_init(newUrl, newKey, envKey)} :
       /\ api_key' = c.api_key
       /\ server_url' = c.server_url
       /\ raised' = c.raised
       /\ retKind' = IF c.raised = "" THEN "DnDClient" ELSE "raised"
  /\ lastOp' = "__init__"
  /\ UNCHANGED <<clientVars, newUrl, newKey, envKey, retText, calls, out,
                 ended, twice, lastArgs, tText, waitVars,
                 mainVars>>

NextNew == Construct
SpecNew == InitNew /\ [][NextNew]_vars

\* C13: constructing the client with no key passed and none in the
\* environment raises ValueError and leaves no client; constructing it with
\* a non-empty key (passed, or else taken from the environment) succeeds
\* and the client holds that key.
C13_CredentialRequired ==
  lastOp = "__init__" =>
    /\ (newKey = NoValue /\ envKey = NoValue)
         => (raised = "ValueError" /\ retKind = "raised" /\ api_key = NoValue)
    /\ newKey \notin {NoValue, ""}
         => (raised = "" /\ retKind = "DnDClient" /\ api_key = newKey)
    /\ (newKey = NoValue /\ envKey \notin {NoValue, ""})
         => (raised = "" /\ retKind = "DnDClient" /\ api_key = envKey)

C13_Witness ==
  /\ lastOp = "__init__" /\ newKey = NoValue /\ envKey = NoValue
  /\ raised = "ValueError" /\ api_key = NoValue

(* ------------------------------------------------------- rendered text *)
\* the characters a dm_response is made of here
TextChars == {"<", "b", "r", ">", "\n", "a"}
Texts == UNION { [1..n -> TextChars] : n \in 0..MaxText }

\* a client with a session, and the dm_response its next turn will get
InitText ==
  /\ InitClient /\ Constructed /\ NoWait
  /\ pc = "api" /\ sessions = <<>> /\ argCampaign = None /\ argWorld = None
  /\ served = [res |-> "none", sessions |-> <<>>]
  /\ lastEvent = "none" /\ lastInput = <<>> /\ endCalls = 0 /\ tokenSent = FALSE
  /\ tText \in Texts

\* load_session followed by one successful send_message whose answer
\* carries dm_response = tText
SendText ==
  /\ pc = "api" /\ lastOp = "none" /\ UNCHANGED ctorVars
  /\ \E l \in {load_session(Self, 1, 1, 1, EnsureServer(<<Probe("2xx", 0)>>))} :
       \E r \in {send_message(l.self, Str_hi,
                              [res |-> "2xx", text |-> tText],
                              Probe("2xx", 0))} :
         Returned("send_message", NoArgs, r)
  /\ UNCHANGED <<tText, waitVars, mainVars>>

NextText == SendText
SpecText == InitText /\ [][NextText]_vars

\* the places of s where the marker "<br>" starts
Marks(s) ==
  { i \in 1..Len(s) :
      i + 3 <= Len(s) /\ s[i] = "<" /\ s[i+1] = "b" /\ s[i+2] = "r"
        /\ s[i+3] = ">" }
InMark(s, i) == \E m \in Marks(s) : m < i /\ i <= m + 3
MarksBefore(s, i) == Cardinality({ m \in Marks(s) : m < i })

C15_ProbeFalseOnAnyFailure ==
  lastOp = "check_server" =>
    /\ Len(calls) = 1 /\ calls[1].kind = "probe" /\ raised = ""
    /\ retKind = (IF calls[1].res = "2xx" THEN "True" ELSE "False")

(* ---------------------------------------------------- chat loop claims *)
\* C16: a turn whose send_message returns None leaves main() in the chat
\* loop, without an end_session call, ready to read the next line; the
\* loop is left only by an exit/quit line, an interrupt or an exception.
C16_NullTurnKeepsLoop ==
  /\ (lastOp = "send_message" /\ retKind = "None")
       => (pc = "loop" /\ endCalls = 0)
  /\ pc = "done" => ExitPathTaken

C16_Witness ==
  /\ pc = "loop" /\ lastOp = "send_message" /\ retKind = "None"
  /\ HasCall(calls, "interact") /\ endCalls = 0
  /\ lastInput = <<"h", "i">>

(* -------------------------------------------------- resume and pairing *)
OnlyProbes(cs) == \A k \in 1..Len(cs) : cs[k].kind = "probe"

\* C17: a load_session whose reachability check got an answer sends
\* nothing but probes, sets the three identity fields to its three
\* arguments and returns True, whether or not the session exists remotely;
\* a send_message that follows posts to that session, and when the service
\* rejects it the caller only sees None.
C17_ResumeIsLocal ==
  [][/\ (lastOp' = "load_session" /\ calls' /= <<>>
           /\ calls'[Len(calls')].kind = "probe"
           /\ calls'[Len(calls')].res /= "neterr")
          => /\ OnlyProbes(calls')
             /\ retKind' = "True" /\ raised' = ""
             /\ session_id' = lastArgs'.sid
             /\ campaign_id' = lastArgs'.cid
             /\ world_id' = lastArgs'.wid
             /\ FullySet(Self')
     /\ (lastOp = "load_session" /\ retKind = "True"
           /\ lastOp' = "send_message")
          => /\ calls' /= <<>> /\ calls'[1].kind = "interact"
             /\ calls'[1].sid = lastArgs.sid
             /\ calls'[1].res = "status"
                  => (retKind' = "None" /\ raised' = "")]_vars

C17_Witness ==
  /\ lastOp = "load_session" /\ retKind = "True"
  /\ lastArgs = Args(2, 1, 2)
  /\ session_id = 2 /\ campaign_id = 1 /\ world_id = 2
  /\ Len(calls) = 1 /\ OnlyProbes(calls)

\* a start_session or load_session has just returned True
Established(op, kind) == op \in {"start_session", "load_session"} /\ kind = "True"

\* C19: whatever start_session, load_session, send_message and end_session
\* calls are made, failed ones included, a set session_id stands with the
\* campaign_id and world_id of the call that established it: they are the
\* ones passed to that call and no other call changes them while the
\* session_id stays set; and an interact request carries the three fields
\* as they stand.
C19_IdentityPaired ==
  [][/\ Established(lastOp', retKind')
          => (campaign_id' = lastArgs'.cid /\ world_id' = lastArgs'.wid)
     /\ (~Established(lastOp', retKind') /\ session_id /= None)
          => (session_id' = session_id /\ campaign_id' = campaign_id
                /\ world_id' = world_id)
     /\ (lastOp' = "send_message" /\ HasCall(calls', "interact"))
          => (calls'[1].sid = session_id /\ calls'[1].cid = campaign_id
                /\ calls'[1].wid = world_id)]_vars

(* ------------------------------------------------- credential and flow *)
\* C18: every request main()'s client sends (probe, listing, create,
\* interact, end) carries the X-API-Key header with the key the client was
\* constructed with, and that key never changes once the client exists.
C18_EveryRequestCarriesKey ==
  [][/\ \A k \in 1..Len(calls') :
          calls'[k].key = api_key' /\ api_key' = newKey' /\ api_key' /= NoValue
     /\ api_key /= NoValue => api_key' = api_key]_vars

C18_Witness ==
  /\ api_key = "k2" /\ lastOp = "send_message" /\ Len(calls) = 2
  /\ calls[1].kind = "interact" /\ calls[1].key = "k2"
  /\ calls[2].kind = "probe" /\ calls[2].key = "k2"

\* the session ids of a listing
Listed(l) == { l[k].session_id : k \in 1..Len(l) }

\* the selection is a decimal number
Numeric(choice) == choice /= <<>> /\ IntParses(choice)

\* C20: main() enters the chat loop only after start_session or
\* load_session returned True; when establishing the session fails it ends
\* without a send_message or end_session call; load_session is only called
\* with a session id of the listing just obtained, and an empty, non-numeric
\* or out-of-range selection leads to start_session.
C20_LoopOnlyAfterEstablish ==
  [][/\ (pc /= "loop" /\ pc' = "loop")
          => /\ lastOp' \in {"start_session", "load_session"}
             /\ retKind' = "True" /\ FullySet(Self')
     /\ (pc /= "exit" /\ pc' = "exit")
          => /\ \/ lastOp' = "__init__"
                \/ lastOp' \in {"start_session", "load_session"}
                     /\ retKind' = "False"
             /\ endCalls' = 0
             /\ ~HasCall(calls', "interact") /\ ~HasCall(calls', "end")
     /\ (pc = "exit" => pc' = "exit")
     /\ lastOp' = "load_session"
          => (pc = "select" /\ lastArgs'.sid \in Listed(sessions)
                /\ lastArgs'.sid \in Listed(served.sessions))
     /\ (pc = "select"
           /\ \/ Strip(lastInput') = <<>>
              \/ ~Numeric(Strip(lastInput'))
              \/ ToInt(Strip(lastInput')) \notin 1..Len(sessions))
          => lastOp' = "start_session"]_vars

====
